---- MODULE Spec2Model ----
(***************************************************************************)
(* The debugging allocator of pset1/m61.cc: one arena, a chain of chunk    *)
(* headers written into the arena, a size-keyed map of stacks of free      *)
(* chunks, the two pointer sets and the statistics.                        *)
(*                                                                         *)
(* The arena is modelled byte by byte.  A chunk header is the LP64 layout  *)
(* of struct chunk_header: size at +0 (8 bytes), used at +8 (1 byte), func *)
(* at +16 (8 bytes), line at +24 (4 bytes), next_chunk at +32 (8 bytes),   *)
(* 40 bytes in all.  size_t and uintptr_t are kept to SizeBits bits: every *)
(* sum, difference and product is taken modulo 2^SizeBits, and an 8 byte   *)
(* load or store moves the low SizeBits bits (the upper bytes are zero).   *)
(* The arena is BufferSize bytes at address BufferBase (the build maps     *)
(* 8 MiB at an address mmap chooses).                                      *)
(***************************************************************************)
EXTENDS Integers, Sequences, FiniteSets, TLC

VARIABLES
    memory,              \* the non-zero bytes of the arena and of its neighbourhood
    pos,                 \* default_buffer.pos
    default_stats,       \* the m61_statistics record
    free_pool,           \* std::map<size_t, std::stack<void*>>
    current_allocation,  \* std::set<void*>
    freed_allocations,   \* std::set<void*>
    status,              \* "running", "exited" (exit(EXIT_FAILURE)), "segv", "hang"
    report,              \* the MEMORY BUG message printed before exit, or "none"
    history,             \* the calls made so far: [op, a, b, r], r the pointer returned
    outstanding,         \* history: pointer returned and not released since |-> size asked
    released,            \* history: pointers released and not returned since
    misuse               \* history: some release was of a pointer not outstanding

vars == <<memory, pos, default_stats, free_pool, current_allocation,
          freed_allocations, status, report, history, outstanding, released, misuse>>

\* The program's own state (what a fatal report must leave alone).
progvars == <<memory, pos, default_stats, free_pool, current_allocation,
              freed_allocations>>

-----------------------------------------------------------------------------
\* Bounds of the model.

\* Width of size_t / uintptr_t in the model (64 in the build).
SizeBits == 16

\* default_buffer.size in the model (8 << 20 in the build).
BufferSize == 320

\* Number of calls (allocate, allocate_zeroed, release, payload write) in a run.
MaxOps == 4

\* Number of calls in a run of SpecReuse.
ReuseOps == 7

\* Number of calls in a run of SpecLong.
LongOps == 9

\* Number of calls in a run of SpecSame.
SameOps == 11

\* Number of failed allocations in a run.
MaxFail == 1

\* Iterations of the coalescing loop before the call counts as not returning.
MaxWalk == 12

-----------------------------------------------------------------------------
\* Layout.

SizeMod == 2 ^ SizeBits

\* alignof(std::max_align_t)
Alignment == 16

\* sizeof(chunk_header)
SizeofChunkHeader == 40

\* default_buffer.buffer, the address mmap returned
BufferBase == 1024

OffSize == 0
OffUsed == 8
OffFunc == 16
OffLine == 24
OffNext == 32

Wrap(x) == x % SizeMod

\* size_t offset_to_next_aligned_size(size_t size)
offset_to_next_aligned_size(size) == Wrap((size % Alignment) + size)

\* offset_to_next_aligned_size(sizeof(chunk_header))
AlignedHeaderSize == offset_to_next_aligned_size(SizeofChunkHeader)

is_add_wraparound_always_false(sum, part) == FALSE

\* bool is_add_wraparound(size_t sum, size_t part)
is_add_wraparound(sum, part) == sum < part

\* bool check_if_available_in_default_buffer(pos, buffer_sz, size)
check_if_available_in_default_buffer(p, buffer_sz, size) ==
    LET total_size == Wrap(p + size)
    IN  IF is_add_wraparound(total_size, p) \/ is_add_wraparound(total_size, size)
        THEN FALSE
        ELSE IF total_size > buffer_sz THEN FALSE ELSE TRUE

-----------------------------------------------------------------------------
\* Memory.  The bytes the model keeps are the arena and Slack bytes on either
\* side of it: an access outside the arena is undefined behaviour, which
\* either faults or lands in whatever is mapped next to the arena.  An access
\* outside the bytes kept can only fault.

Slack == AlignedHeaderSize

MemLo == BufferBase - Slack
MemHi == BufferBase + BufferSize + Slack

Mapped(a, n) == a >= MemLo /\ a + n <= MemHi
InBuffer(a, n) == a >= BufferBase /\ a + n <= BufferBase + BufferSize

Worse(x, y) == IF x = "wild" \/ y = "wild" THEN "wild"
               ELSE IF x = "oob" \/ y = "oob" THEN "oob" ELSE "none"

\* How an access of n bytes at a changes the record of undefined behaviour.
Touch(bad, a, n) ==
    Worse(bad, IF ~Mapped(a, n) THEN "wild" ELSE IF ~InBuffer(a, n) THEN "oob" ELSE "none")

\* F applied to the value of v, v being evaluated once.
Bind(v, F(_)) == CHOOSE r \in {F(x) : x \in {v}} : TRUE

\* Byte i of the little-endian image of v (v < 2^24).
ByteOf(v, i) == IF i >= 3 THEN 0 ELSE (v \div (256 ^ i)) % 256

\* The bytes are kept as a function on the addresses that hold a non-zero
\* byte; every other byte is zero.
Peek(mem, x) == IF x \in DOMAIN mem THEN mem[x] ELSE 0

\* mem with the n bytes at a replaced by the image of v.
Poke(mem, a, n, v) ==
    LET nonzero == {x \in a .. (a + n - 1) : ByteOf(v, x - a) # 0}
    IN  [x \in (DOMAIN mem \ (a .. (a + n - 1))) \cup nonzero |->
             IF x \in nonzero THEN ByteOf(v, x - a) ELSE mem[x]]

\* A store of n bytes (1 for bool, 4 for int, 8 for size_t and pointers).
\* S is a record with fields mem and bad (and others, left alone).
Store(S, a, n, v) ==
    IF ~Mapped(a, n) THEN [S EXCEPT !.bad = "wild"]
    ELSE [S EXCEPT !.mem = Poke(@, a, n, v), !.bad = Touch(@, a, n)]

\* A load of n bytes from the bytes mem.
Load(mem, a, n) ==
    IF ~Mapped(a, n) THEN 0
    ELSE Wrap(Peek(mem, a) + (IF n > 1 THEN 256 * Peek(mem, a + 1) ELSE 0)
                           + (IF n > 2 THEN 65536 * Peek(mem, a + 2) ELSE 0))

Touched(S, a, n) == [S EXCEPT !.bad = Touch(@, a, n)]

\* hdr->size, hdr->used, hdr->next_chunk
HdrSize(mem, h) == Load(mem, Wrap(h + OffSize), 8)
HdrUsed(mem, h) == Load(mem, Wrap(h + OffUsed), 1) # 0
HdrNext(mem, h) == Load(mem, Wrap(h + OffNext), 8)

\* void fill_chunk_header(ptr, sz, used, next_chunk, file, line)
fill_chunk_header(S, ptr, sz, used, next_chunk, file, line) ==
    Store(Store(Store(Store(Store(S, Wrap(ptr + OffSize), 8, sz),
                            Wrap(ptr + OffUsed), 1, IF used THEN 1 ELSE 0),
                      Wrap(ptr + OffFunc), 8, file),
                Wrap(ptr + OffLine), 4, line),
          Wrap(ptr + OffNext), 8, next_chunk)

\* void* get_payload_ptr(void* ptr)
get_payload_ptr(ptr) == Wrap(ptr + AlignedHeaderSize)

\* chunk_header* extract_chunk_header(void* ptr)
extract_chunk_header(ptr) == Wrap(ptr - AlignedHeaderSize)

-----------------------------------------------------------------------------
\* The free pool: a map from a size to a stack of chunk addresses.  A key
\* stays in the map once free_pool[key] was evaluated, also with its stack
\* empty.  The top of a stack is the last element of the sequence.

PoolPush(pool, key, ptr) ==
    IF key \in DOMAIN pool
    THEN [pool EXCEPT ![key] = Append(@, ptr)]
    ELSE [k \in DOMAIN pool \cup {key} |-> IF k = key THEN <<ptr>> ELSE pool[k]]

PoolTop(pool, key) == pool[key][Len(pool[key])]

PoolPop(pool, key) == [pool EXCEPT ![key] = SubSeq(@, 1, Len(@) - 1)]

MaxOf(set) == CHOOSE x \in set : \A y \in set : x >= y

\* The first key the ordered iteration of the map meets, among those in set.
MinOf(set) == CHOOSE x \in set : \A y \in set : x <= y

\* The conversion of a size_t difference to int64_t.
ToSigned(v) == IF v >= SizeMod \div 2 THEN v - SizeMod ELSE v

\* void split_current_chunk(void* ptr, size_t requested_size, size_t extra_memory)
split_current_chunk(S0, ptr, requested_size, extra_memory) ==
    Bind(S0, LAMBDA S :
        LET current_chunk_header == extract_chunk_header(ptr)
            new_ptr == Wrap(ptr + requested_size + SizeofChunkHeader)
            next_of_current == HdrNext(S.mem, current_chunk_header)
            S1 == fill_chunk_header(Touched(S, Wrap(current_chunk_header + OffNext), 8),
                                    new_ptr, extra_memory, FALSE, next_of_current, 0, 0)
            S2 == fill_chunk_header(S1, current_chunk_header, requested_size, TRUE,
                                    new_ptr, 0, 0)
        IN  [S2 EXCEPT !.pool = PoolPush(@, extra_memory, new_ptr)])

\* void free_extra_memory(void* ptr, size_t requested_size, size_t available_size)
free_extra_memory(S, ptr, requested_size, available_size) ==
    LET extra_memory == ToSigned(Wrap(Wrap(available_size - requested_size)
                                      - 2 * SizeofChunkHeader))
    IN  IF extra_memory > 0
        THEN split_current_chunk(S, ptr, requested_size, extra_memory)
        ELSE S

\* void* allocate_from_free_pool(size_t sz); the result is in S.ret
allocate_from_free_pool(S0, sz) ==
    Bind(S0, LAMBDA S :
        LET fitting == {size \in DOMAIN S.pool : size >= sz /\ S.pool[size] # <<>>}
        IN  IF fitting = {} THEN [S EXCEPT !.ret = 0]
            ELSE LET size == MinOf(fitting)
                     ptr == PoolTop(S.pool, size)
                 IN  [free_extra_memory([S EXCEPT !.pool = PoolPop(@, size)], ptr, sz, size)
                          EXCEPT !.ret = ptr])

\* One iteration of the loop of merge_contiguous_free_chunks past its tests:
\* hdr absorbs current_hdr.
merge_step(S0, hdr, current_hdr) ==
    Bind(Touched(Touched(S0, Wrap(hdr + OffSize), 8), Wrap(current_hdr + OffSize), 8),
         LAMBDA S1 :
             Bind(Touched(Store(S1, Wrap(hdr + OffSize), 8,
                                Wrap(HdrSize(S1.mem, hdr) + HdrSize(S1.mem, current_hdr)
                                     + AlignedHeaderSize)),
                          Wrap(current_hdr + OffNext), 8),
                  LAMBDA S3 : Store(S3, Wrap(hdr + OffNext), 8, HdrNext(S3.mem, current_hdr))))

\* The loop of merge_contiguous_free_chunks, current_hdr being the cursor.
RECURSIVE merge_loop(_, _, _, _)
merge_loop(S0, hdr, current_hdr, fuel) ==
    Bind(S0, LAMBDA S :
        IF current_hdr = 0 \/ S.bad = "wild" THEN S
        ELSE IF fuel = 0 THEN [S EXCEPT !.hang = TRUE]
        ELSE IF HdrUsed(S.mem, hdr) THEN Touched(S, Wrap(hdr + OffUsed), 1)
        ELSE Bind(merge_step(Touched(S, Wrap(hdr + OffUsed), 1), hdr, current_hdr),
                  LAMBDA S4 : merge_loop(S4, hdr, HdrNext(S4.mem, current_hdr), fuel - 1)))

\* void merge_contiguous_free_chunks(chunk_header* hdr)
merge_contiguous_free_chunks(S0, hdr) ==
    Bind(S0, LAMBDA S :
        merge_loop(Touched(S, Wrap(hdr + OffNext), 8), hdr, HdrNext(S.mem, hdr), MaxWalk))

-----------------------------------------------------------------------------
\* Statistics.  default_stats has static storage and no initializer: all zero.

InitStats == [ntotal |-> 0, nactive |-> 0, total_size |-> 0, active_size |-> 0,
              nfail |-> 0, fail_size |-> 0, heap_min |-> 0, heap_max |-> 0]

\* void m61_statistics::update_successful_allocation(ptr, requested_sz, allocated_sz)
update_successful_allocation(st, ptr, requested_sz, allocated_sz) ==
    [st EXCEPT !.ntotal = Wrap(@ + 1),
               !.nactive = Wrap(@ + 1),
               !.total_size = Wrap(@ + requested_sz),
               !.active_size = Wrap(@ + requested_sz),
               !.heap_min = IF ptr < @ THEN ptr ELSE @,
               !.heap_max = IF Wrap(ptr + allocated_sz) > @
                            THEN Wrap(ptr + allocated_sz) ELSE @]

\* void m61_statistics::update_failed_allocation(size_t sz)
update_failed_allocation(st, sz) ==
    [st EXCEPT !.nfail = Wrap(@ + 1), !.fail_size = Wrap(@ + sz)]

\* void m61_statistics::update_free(uintptr_t ptr, size_t sz)
update_free(st, ptr, sz) ==
    [st EXCEPT !.nactive = Wrap(@ - 1), !.active_size = Wrap(@ - sz)]

-----------------------------------------------------------------------------
\* The three calls.  Each takes and returns a record of the program's state:
\* mem, bad (the undefined behaviour met so far), pos, stats, pool, cur, freed,
\* ret (the pointer returned), report (the message of a fatal exit), hang.

\* m61_malloc searching the pool before it looks at the tail.
m61_malloc_pool_first(S, sz, file, line) ==
    LET aligned_header_size == offset_to_next_aligned_size(SizeofChunkHeader)
        aligned_chunk_size == offset_to_next_aligned_size(sz)
        total_size == Wrap(aligned_chunk_size + aligned_header_size)
    IN  IF is_add_wraparound(total_size, sz)
        THEN [S EXCEPT !.stats = update_failed_allocation(@, sz), !.ret = 0]
        ELSE Bind(allocate_from_free_pool(S, sz), LAMBDA P :
                 IF P.ret # 0
                 THEN [P EXCEPT !.stats = update_successful_allocation(@, P.ret, sz, total_size),
                                !.cur = @ \cup {get_payload_ptr(P.ret)},
                                !.freed = @ \ {get_payload_ptr(P.ret)},
                                !.ret = get_payload_ptr(P.ret)]
                 ELSE IF ~check_if_available_in_default_buffer(P.pos, BufferSize, total_size)
                 THEN [P EXCEPT !.stats = update_failed_allocation(@, sz), !.ret = 0]
                 ELSE LET ptr == Wrap(BufferBase + P.pos)
                          new_pos == Wrap(P.pos + total_size)
                          next_chunk == Wrap(BufferBase + new_pos)
                          S1 == fill_chunk_header([P EXCEPT !.pos = new_pos], ptr, sz, TRUE,
                                                  next_chunk, file, line)
                          S2 == fill_chunk_header(S1, next_chunk, Wrap(BufferSize - new_pos),
                                                  FALSE, 0, file, line)
                      IN  [S2 EXCEPT !.cur = @ \cup {get_payload_ptr(ptr)},
                                     !.stats = update_successful_allocation(@, ptr, sz, total_size),
                                     !.ret = get_payload_ptr(ptr)])

\* void* m61_malloc(size_t sz, const char* file, int line)
m61_malloc(S, sz, file, line) ==
    LET aligned_header_size == offset_to_next_aligned_size(SizeofChunkHeader)
        aligned_chunk_size == offset_to_next_aligned_size(sz)
        total_size == Wrap(aligned_chunk_size + aligned_header_size)
    IN  IF is_add_wraparound(total_size, sz)
        THEN [S EXCEPT !.stats = update_failed_allocation(@, sz), !.ret = 0]
        ELSE IF ~check_if_available_in_default_buffer(S.pos, BufferSize, total_size)
        THEN Bind(allocate_from_free_pool(S, sz), LAMBDA P :
                 IF P.ret # 0
                 THEN [P EXCEPT !.stats = update_successful_allocation(@, P.ret, sz, total_size),
                                !.cur = @ \cup {get_payload_ptr(P.ret)},
                                !.freed = @ \ {get_payload_ptr(P.ret)},
                                !.ret = get_payload_ptr(P.ret)]
                 ELSE [P EXCEPT !.stats = update_failed_allocation(@, sz), !.ret = 0])
        ELSE LET ptr == Wrap(BufferBase + S.pos)
                 new_pos == Wrap(S.pos + total_size)
                 next_chunk == Wrap(BufferBase + new_pos)
                 S1 == fill_chunk_header([S EXCEPT !.pos = new_pos], ptr, sz, TRUE,
                                         next_chunk, file, line)
                 S2 == fill_chunk_header(S1, next_chunk, Wrap(BufferSize - new_pos), FALSE,
                                         0, file, line)
             IN  [S2 EXCEPT !.cur = @ \cup {get_payload_ptr(ptr)},
                            !.stats = update_successful_allocation(@, ptr, sz, total_size),
                            !.ret = get_payload_ptr(ptr)]

\* void m61_free(void* ptr, const char* file, int line)
m61_free(S, ptr) ==
    IF ptr = 0 THEN S
    ELSE IF ptr < BufferBase + offset_to_next_aligned_size(SizeofChunkHeader)
            \/ ptr > BufferBase + BufferSize
    THEN [S EXCEPT !.report = "not in heap"]
    ELSE IF ptr \notin S.cur
    THEN IF ptr \in S.freed
         THEN [S EXCEPT !.report = "double free"]
         ELSE [S EXCEPT !.report = "not allocated"]
    ELSE LET hdr == extract_chunk_header(ptr)
             S1 == [S EXCEPT !.stats = update_free(@, ptr, HdrSize(S.mem, hdr)),
                             !.bad = Touch(@, Wrap(hdr + OffSize), 8)]
         IN  Bind(Store(merge_contiguous_free_chunks(S1, hdr), Wrap(hdr + OffUsed), 1, 0),
                  LAMBDA S3 :
                      [S3 EXCEPT !.pool = PoolPush(@, HdrSize(S3.mem, hdr), hdr),
                                 !.freed = @ \cup {ptr},
                                 !.bad = Touch(@, Wrap(hdr + OffSize), 8)])

\* memset(ptr, 0, n)
Memset(S, ptr, n) ==
    IF n = 0 THEN S
    ELSE IF ~Mapped(ptr, n) THEN [S EXCEPT !.bad = "wild"]
    ELSE [S EXCEPT !.mem = [x \in DOMAIN @ \ (ptr .. (ptr + n - 1)) |-> @[x]],
                   !.bad = Touch(@, ptr, n)]

m61_calloc_no_zero_check(S, count, sz, file, line) ==
    LET total_size == Wrap(count * sz)
    IN  IF sz # 0 /\ (total_size \div sz # count)
        THEN [S EXCEPT !.stats = update_failed_allocation(@, sz), !.ret = 0]
        ELSE Bind(m61_malloc(S, total_size, file, line), LAMBDA R :
                 IF R.ret # 0 THEN Memset(R, R.ret, total_size) ELSE R)

\* void* m61_calloc(size_t count, size_t sz, const char* file, int line)
m61_calloc(S, count, sz, file, line) ==
    LET total_size == Wrap(count * sz)
    IN  IF count = 0 \/ sz = 0 \/ (sz # 0 /\ (total_size \div sz # count))
        THEN [S EXCEPT !.stats = update_failed_allocation(@, sz), !.ret = 0]
        ELSE Bind(m61_malloc(S, total_size, file, line), LAMBDA R :
                 IF R.ret # 0 THEN Memset(R, R.ret, total_size) ELSE R)

-----------------------------------------------------------------------------
\* The state machine.

\* The state the calls start from, as a record.
Cur == [mem |-> memory, bad |-> "none", pos |-> pos, stats |-> default_stats,
        pool |-> free_pool, cur |-> current_allocation, freed |-> freed_allocations,
        ret |-> 0, report |-> "none", hang |-> FALSE]

\* The inputs of the calls.
MallocSizes == {0, 16, 24, 30, 208, SizeMod - 1, SizeMod - AlignedHeaderSize}

ReuseSizes == {16, 24, 30, 208}

LongSizes == {16, 24}

SameSizes == {30}

CallocArgs == {<<0, 16>>, <<16, 0>>, <<2, 8>>,
               <<SizeMod \div 16, 16>>, <<SizeMod - 1, 2>>}

\* The caller's __FILE__ and __LINE__ (diagnostic only).
Origin == [file |-> 8, line |-> 61]

FreePtrs == {0, BufferBase + 8, BufferBase + AlignedHeaderSize + 8,
             BufferBase + BufferSize, BufferBase + BufferSize + 16}
            \cup current_allocation \cup freed_allocations \cup DOMAIN outstanding

\* What the program stores into a payload it holds: a pointer into the arena.
PayloadValues == {BufferBase + 64}
PayloadOffsets == {0}

\* mmap hands out zero-filled pages; the pages next to the arena are taken
\* as zero-filled too.
Init ==
    /\ memory = <<>>
    /\ pos = 0
    /\ default_stats = InitStats
    /\ free_pool = <<>>
    /\ current_allocation = {}
    /\ freed_allocations = {}
    /\ status = "running"
    /\ report = "none"
    /\ history = <<>>
    /\ outstanding = <<>>
    /\ released = {}
    /\ misuse = FALSE

\* The program's variables after a call that ended with state R.
Returned(R) ==
    /\ memory' = R.mem
    /\ pos' = R.pos
    /\ default_stats' = R.stats
    /\ free_pool' = R.pool
    /\ current_allocation' = R.cur
    /\ freed_allocations' = R.freed

\* The outcomes of a call that computes R: it returns; or it printed a MEMORY
\* BUG message and exited; or the coalescing loop does not end; or, when it
\* touched bytes outside the arena, it may have faulted.  A process that is
\* gone keeps the state it was called in.
Outcome(R) ==
    \/ /\ R.bad # "wild" /\ ~R.hang /\ R.report = "none"
       /\ Returned(R)
       /\ status' = "running" /\ report' = "none"
    \/ /\ R.bad # "wild" /\ ~R.hang /\ R.report # "none"
       /\ Returned(R)
       /\ status' = "exited" /\ report' = R.report
    \/ /\ R.bad # "wild" /\ R.hang
       /\ UNCHANGED <<progvars, report>>
       /\ status' = "hang"
    \/ /\ R.bad # "none"
       /\ UNCHANGED <<progvars, report>>
       /\ status' = "segv"

WithPtr(f, p, sz) == [x \in DOMAIN f \cup {p} |-> IF x = p THEN sz ELSE f[x]]
WithoutPtr(f, p) == [x \in DOMAIN f \ {p} |-> f[x]]

\* The history after an allocation that computed R.
Allocated(R, op, a, b, sz) ==
    LET r == IF status' = "running" THEN R.ret ELSE 0
    IN  /\ history' = Append(history, [op |-> op, a |-> a, b |-> b, r |-> r])
        /\ outstanding' = IF r # 0 THEN WithPtr(outstanding, r, sz) ELSE outstanding
        /\ released' = released \ {r}
        /\ UNCHANGED misuse

\* p = m61_malloc(sz, file, line)
Malloc(sizes, ops) ==
    /\ status = "running" /\ Len(history) < ops
    /\ \E sz \in sizes :
         \E R \in {m61_malloc(Cur, sz, Origin.file, Origin.line)} :
             /\ R.ret # 0 \/ default_stats.nfail < MaxFail
             /\ Outcome(R)
             /\ Allocated(R, "malloc", sz, 0, sz)

\* p = m61_calloc(count, sz, file, line)
Calloc(arguments, ops) ==
    /\ status = "running" /\ Len(history) < ops
    /\ \E args \in arguments :
         \E R \in {m61_calloc(Cur, args[1], args[2], Origin.file, Origin.line)} :
             /\ R.ret # 0 \/ default_stats.nfail < MaxFail
             /\ Outcome(R)
             /\ Allocated(R, "calloc", args[1], args[2], Wrap(args[1] * args[2]))

\* m61_free(ptr, file, line)
Free(ptrs, ops) ==
    /\ status = "running" /\ Len(history) < ops
    /\ \E ptr \in ptrs :
         /\ \E R \in {m61_free(Cur, ptr)} : Outcome(R)
         /\ history' = Append(history, [op |-> "free", a |-> ptr, b |-> 0, r |-> 0])
         /\ outstanding' = IF status' = "running" /\ ptr \in DOMAIN outstanding
                           THEN WithoutPtr(outstanding, ptr) ELSE outstanding
         /\ released' = IF status' = "running" /\ ptr \in DOMAIN outstanding
                        THEN released \cup {ptr} ELSE released
         /\ misuse' = (misuse \/ (ptr # 0 /\ ptr \notin DOMAIN outstanding))

\* The program stores a value into a payload it holds.
PayloadWrite(ops) ==
    /\ status = "running" /\ Len(history) < ops
    /\ \E p \in DOMAIN outstanding, off \in PayloadOffsets, v \in PayloadValues :
         /\ off + 8 <= outstanding[p]
         /\ Mapped(p + off, 8)
         /\ memory' = Store(Cur, p + off, 8, v).mem
         /\ history' = Append(history, [op |-> "write", a |-> p + off, b |-> v, r |-> 0])
    /\ UNCHANGED <<pos, default_stats, free_pool, current_allocation, freed_allocations,
                   status, report, outstanding, released, misuse>>

\* Any call, with any of the inputs.
Next ==
    \/ Malloc(MallocSizes, MaxOps)
    \/ Calloc(CallocArgs, MaxOps)
    \/ Free(FreePtrs, MaxOps)
    \/ PayloadWrite(MaxOps)

Spec == Init /\ [][Next]_vars

\* Longer runs of a program that uses the allocator as documented: it
\* allocates, and releases only pointers it holds.
NextReuse ==
    \/ Malloc(ReuseSizes, ReuseOps)
    \/ Free(DOMAIN outstanding, ReuseOps)

SpecReuse == Init /\ [][NextReuse]_vars

\* The same program with two sizes only, and runs long enough for a chunk
\* behind the first one to be released, reused, released and split.
NextLong ==
    \/ Malloc(LongSizes, LongOps)
    \/ Free(DOMAIN outstanding, LongOps)

SpecLong == Init /\ [][NextLong]_vars

\* The same program again, all of its blocks of one size (three of them fill
\* the arena), and runs long enough for a chunk to be split twice.
NextSame ==
    \/ Malloc(SameSizes, SameOps)
    \/ Free(DOMAIN outstanding, SameOps)

SpecSame == Init /\ [][NextSame]_vars

-----------------------------------------------------------------------------
\* What the properties below share.

\* The last call made.
Last == history[Len(history)]

\* No store has landed outside the arena (a header store always leaves a
\* non-zero byte, its line).
InArena(mem) == DOMAIN mem \subseteq BufferBase .. (BufferBase + BufferSize - 1)

\* A step that makes a call; NewCall is that call, with what it returned.
Stepped == Len(history') = Len(history) + 1
NewCall == history'[Len(history')]

\* Sum of f over a finite set of pointers.
RECURSIVE SumOver(_, _)
SumOver(set, f) ==
    IF set = {} THEN 0
    ELSE LET p == CHOOSE x \in set : TRUE
         IN  f[p] + SumOver(set \ {p}, f)

\* Most chunks an arena can hold.
MaxChunks == BufferSize \div AlignedHeaderSize + 1

\* The header at h is met by following next from the header at from.
RECURSIVE ChainReaches(_, _, _, _)
ChainReaches(mem, from, h, fuel) ==
    IF from = h THEN TRUE
    ELSE IF from = 0 \/ fuel = 0 \/ ~Mapped(from, SizeofChunkHeader) THEN FALSE
    ELSE ChainReaches(mem, HdrNext(mem, from), h, fuel - 1)

\* The header at h is part of the chunk chain, which starts at the arena base
\* once a chunk was carved (the cursor has moved).
OnChain(mem, cursor, h) == cursor > 0 /\ ChainReaches(mem, BufferBase, h, BufferSize)

\* The headers of the chunk chain from h on.
RECURSIVE ChainFrom(_, _, _)
ChainFrom(mem, h, fuel) ==
    IF h = 0 \/ fuel = 0 \/ ~Mapped(h, SizeofChunkHeader) THEN {}
    ELSE {h} \cup ChainFrom(mem, HdrNext(mem, h), fuel - 1)

Chain(mem, cursor) == IF cursor = 0 THEN {} ELSE ChainFrom(mem, BufferBase, BufferSize)

\* How many times the address h is in the pool of key k.
Occurrences(pool, k, h) ==
    IF k \in DOMAIN pool THEN Cardinality({i \in 1 .. Len(pool[k]) : pool[k][i] = h}) ELSE 0

\* A state of a running program that released only pointers it held, every
\* store made so far being inside the arena.
SoundState == status = "running" /\ ~misuse /\ InArena(memory)

\* A call of a program that released only pointers it held, which returned,
\* every store made so far being inside the arena.
SoundStep ==
    /\ Stepped /\ ~misuse /\ ~misuse' /\ status' = "running"
    /\ InArena(memory) /\ InArena(memory')

-----------------------------------------------------------------------------
\* C1.  Double-free detection: release(p) of a pointer that was released and
\* not returned by an allocation since exits with the double-free report, and
\* that call changes none of live, freed, the arena, the pool, the statistics.
C1_DoubleFreeReported ==
    [][ (Stepped /\ NewCall.op = "free" /\ NewCall.a \in released)
        => (status' = "exited" /\ report' = "double free" /\ UNCHANGED progvars) ]_vars

\* C2.  While every release is of a pointer the program holds and every store
\* stays inside the arena, no successful allocation returns a pointer the
\* program still holds.
C2_NeverReturnsLive ==
    [][ (/\ Stepped /\ NewCall.op \in {"malloc", "calloc"} /\ NewCall.r # 0
         /\ ~misuse /\ InArena(memory) /\ InArena(memory'))
        => NewCall.r \notin DOMAIN outstanding ]_vars

\* C3.  current_allocation and freed_allocations are disjoint in every state.
C3_LiveFreedDisjoint == current_allocation \cap freed_allocations = {}

\* C4.  active_size is the sum of the payload sizes of the pointers returned
\* and not released since (taking a pointer's payload size to be the size asked
\* for, or else the size its header holds), hence 0 when none is held; in the
\* runs where every release is of a held pointer and every store stays inside
\* the arena.
C4_ActiveBytes ==
    (status = "running" /\ ~misuse /\ InArena(memory))
    => \/ default_stats.active_size = Wrap(SumOver(DOMAIN outstanding, outstanding))
       \/ default_stats.active_size =
              Wrap(SumOver(DOMAIN outstanding,
                           [p \in DOMAIN outstanding |->
                                HdrSize(memory, extract_chunk_header(p))]))

\* The chain from header h: each chunk (header and payload) ends where the
\* next begins, and the last one ends at the cursor.
RECURSIVE ChainCovers(_, _, _)
ChainCovers(mem, h, fuel) ==
    IF h = BufferBase + pos THEN TRUE
    ELSE IF fuel = 0 \/ h < BufferBase \/ h > BufferBase + pos THEN FALSE
    ELSE /\ h + AlignedHeaderSize + HdrSize(mem, h) = HdrNext(mem, h)
         /\ ChainCovers(mem, HdrNext(mem, h), fuel - 1)

\* C5.  No-overlap invariant: the chunks of the header chain partition
\* [0, cursor): no gap, no overlap, and they end at the cursor.
C5_ChainPartitionsArena ==
    status = "running" => ChainCovers(memory, BufferBase, MaxChunks)

\* What the header at hdr must hold after it absorbed the free chunks that
\* follow it: <<payload size, next>>.  The header at the cursor stands for the
\* unclaimed tail; tail says whether it counts as a chunk to absorb.
RECURSIVE Absorbed(_, _, _, _, _)
Absorbed(mem, size, next, tail, fuel) ==
    IF /\ next # 0 /\ fuel > 0 /\ Mapped(next, SizeofChunkHeader)
       /\ (next < BufferBase + pos \/ (tail /\ next = BufferBase + pos))
       /\ ~HdrUsed(mem, next)
    THEN Absorbed(mem, Wrap(size + HdrSize(mem, next) + AlignedHeaderSize),
                  HdrNext(mem, next), tail, fuel - 1)
    ELSE <<size, next>>

\* The chunk after hdr is a chunk below the cursor, and free.
FollowerFree(mem, hdr) ==
    /\ HdrNext(mem, hdr) # 0
    /\ HdrNext(mem, hdr) < BufferBase + pos
    /\ ~HdrUsed(mem, HdrNext(mem, hdr))

\* C6.  Forward coalescing: release(p) of a held pointer whose following chunk
\* is free leaves in p's header the old payload size plus, for each absorbed
\* chunk, its payload size and one header size, and the next of the last
\* absorbed chunk.
C6_ForwardCoalesce ==
    [][ (/\ Stepped /\ NewCall.op = "free" /\ NewCall.a \in DOMAIN outstanding
         /\ ~misuse /\ status' = "running"
         /\ FollowerFree(memory, extract_chunk_header(NewCall.a)))
        => LET hdr == extract_chunk_header(NewCall.a)
               now == <<HdrSize(memory', hdr), HdrNext(memory', hdr)>>
           IN  \/ now = Absorbed(memory, HdrSize(memory, hdr), HdrNext(memory, hdr),
                                 FALSE, MaxChunks)
               \/ now = Absorbed(memory, HdrSize(memory, hdr), HdrNext(memory, hdr),
                                 TRUE, MaxChunks) ]_vars

\* A = allocate(16), B = allocate(16), C = allocate(16), release(B),
\* release(A), allocate(30).
CoalesceScenario ==
    /\ Len(history) = 6
    /\ \A i \in 1..3 : history[i].op = "malloc" /\ history[i].a = 16 /\ history[i].r # 0
    /\ history[4].op = "free" /\ history[4].a = history[2].r
    /\ history[5].op = "free" /\ history[5].a = history[1].r
    /\ history[6].op = "malloc" /\ history[6].a = 30

\* C7.  Reuse of a merged region: in that scenario allocate(30) returns a
\* payload inside the merged region of A and B and leaves the cursor where
\* the three allocations put it.
C7_ReusesMergedRegion ==
    CoalesceScenario
    => /\ status = "running"
       /\ history[6].r # 0
       /\ history[6].r >= history[1].r
       /\ history[6].r + 30 <= history[1].r + 16 + AlignedHeaderSize + 16
       /\ pos = 3 * (AlignedHeaderSize + 16)

\* C8.  Out-of-bounds detection: release(p) of a non-null p outside
\* [base + header size, base + size) exits with the not-in-heap report and
\* changes nothing.
C8_OutOfBoundsReported ==
    [][ (/\ Stepped /\ NewCall.op = "free" /\ NewCall.a # 0
         /\ (NewCall.a < BufferBase + AlignedHeaderSize
             \/ NewCall.a >= BufferBase + BufferSize))
        => (status' = "exited" /\ report' = "not in heap" /\ UNCHANGED progvars) ]_vars

\* C9.  Zero-size semantics: allocate_zeroed(0, k) and allocate_zeroed(k, 0)
\* return null, add one to nfail, and leave ntotal, nactive, the cursor, the
\* arena, the pool and the two sets as they were.
C9_ZeroSizeFails ==
    [][ (Stepped /\ NewCall.op = "calloc" /\ (NewCall.a = 0 \/ NewCall.b = 0))
        => /\ status' = "running"
           /\ NewCall.r = 0
           /\ default_stats'.nfail = Wrap(default_stats.nfail + 1)
           /\ default_stats'.ntotal = default_stats.ntotal
           /\ default_stats'.nactive = default_stats.nactive
           /\ UNCHANGED <<pos, memory, free_pool, current_allocation, freed_allocations>>
      ]_vars

\* A zero-size request made with chunks allocated, and one with a free chunk.
C9_Witness ==
    /\ Len(history) > 1 /\ status = "running"
    /\ Last.op = "calloc" /\ Last.b = 0 /\ Last.r = 0
    /\ pos > 0 /\ default_stats.nfail = 1 /\ default_stats.ntotal > 0

\* C10.  Overflow guard: allocate_zeroed(count, size) whose product wraps
\* returns null, counts as a failed allocation and leaves the cursor; so does
\* allocate(sz) whose aligned size plus the header size wraps.
C10_OverflowGuard ==
    [][ /\ (Stepped /\ NewCall.op = "calloc" /\ NewCall.a * NewCall.b >= SizeMod)
           => /\ status' = "running" /\ NewCall.r = 0
              /\ default_stats'.nfail = Wrap(default_stats.nfail + 1)
              /\ default_stats'.ntotal = default_stats.ntotal
              /\ pos' = pos
        /\ (/\ Stepped /\ NewCall.op = "malloc"
            /\ (NewCall.a % Alignment) + NewCall.a + AlignedHeaderSize >= SizeMod)
           => /\ status' = "running" /\ NewCall.r = 0
              /\ default_stats'.nfail = Wrap(default_stats.nfail + 1)
              /\ pos' = pos
      ]_vars

\* A wrapping request made with the cursor advanced and room left in the tail.
C10_Witness ==
    /\ Len(history) > 1 /\ status = "running"
    /\ \/ Last.op = "calloc" /\ Last.a * Last.b >= SizeMod
       \/ Last.op = "malloc" /\ (Last.a % Alignment) + Last.a + AlignedHeaderSize >= SizeMod
    /\ Last.r = 0 /\ default_stats.nfail = 1
    /\ pos > 0 /\ pos + AlignedHeaderSize <= BufferSize

\* C11.  Forward coalescing never absorbs a chunk that is in use: release(p)
\* leaves the payload size of every other held pointer's chunk as it was, and
\* leaves that chunk on the chain if it was on it.
C11_KeepsLiveChunks ==
    [][ (SoundStep /\ NewCall.op = "free" /\ NewCall.a \in DOMAIN outstanding)
        => \A q \in DOMAIN outstanding \ {NewCall.a} :
               LET hq == extract_chunk_header(q)
               IN  /\ HdrSize(memory', hq) = HdrSize(memory, hq)
                   /\ OnChain(memory, pos, hq) => OnChain(memory', pos', hq) ]_vars

\* C12.  Every address in a pool of the free pool is the header of a chunk
\* that is on the chunk chain and has used = false.
C12_PoolEntriesFree ==
    SoundState
    => \A k \in DOMAIN free_pool : \A i \in 1 .. Len(free_pool[k]) :
           /\ OnChain(memory, pos, free_pool[k][i])
           /\ ~HdrUsed(memory, free_pool[k][i])

\* C13.  Every header of the chain with used = false, the tail sentinel
\* included, is in the pool keyed by its size, once, and in no other pool.
C13_FreeChunksPooled ==
    SoundState
    => \A h \in Chain(memory, pos) :
           ~HdrUsed(memory, h)
           => /\ Occurrences(free_pool, HdrSize(memory, h), h) = 1
              /\ \A k \in DOMAIN free_pool \ {HdrSize(memory, h)} :
                     Occurrences(free_pool, k, h) = 0

\* C14.  The header of every pointer the program holds has used = true.
C14_LiveChunksUsed ==
    SoundState
    => \A p \in DOMAIN outstanding : HdrUsed(memory, extract_chunk_header(p))

\* The bytes of the header at h.
HeaderBytes(h) == h .. (h + SizeofChunkHeader - 1)

\* C15.  Split postcondition: when allocate(requested) takes from the pool a
\* free chunk H whose size exceeds requested by more than two headers, the
\* header at H ends with size = requested, used = true and next = N, N being
\* H + header size + requested; the header at N is free, has H's former next
\* and is in the pool under its size; and no byte outside these two headers
\* has changed.
C15_SplitPostcondition ==
    [][ (/\ SoundStep /\ NewCall.op = "malloc" /\ NewCall.r # 0 /\ pos' = pos
         /\ LET H == extract_chunk_header(NewCall.r)
            IN  /\ HdrSize(memory, H) > NewCall.a + 2 * AlignedHeaderSize
                /\ HdrSize(memory, H) \in DOMAIN free_pool
                /\ free_pool[HdrSize(memory, H)] # <<>>
                /\ PoolTop(free_pool, HdrSize(memory, H)) = H)
        => LET H == extract_chunk_header(NewCall.r)
               N == H + AlignedHeaderSize + NewCall.a
           IN  /\ HdrSize(memory', H) = NewCall.a
               /\ HdrUsed(memory', H)
               /\ HdrNext(memory', H) = N
               /\ ~HdrUsed(memory', N)
               /\ HdrNext(memory', N) = HdrNext(memory, H)
               /\ Occurrences(free_pool', HdrSize(memory', N), N) = 1
               /\ \A x \in (DOMAIN memory \cup DOMAIN memory')
                             \ (HeaderBytes(H) \cup HeaderBytes(N)) :
                      Peek(memory', x) = Peek(memory, x) ]_vars

\* The total size of a request of sz bytes, as an integer (not reduced modulo
\* 2^SizeBits): the aligned payload size plus the aligned header size.
TotalSize(sz) == (sz % Alignment) + sz + AlignedHeaderSize

\* C16.  Tail preference: an allocate(sz) that returns, made with the cursor
\* plus the total size of the request within the arena size (as integers, so
\* without wraparound), carves at the cursor: the cursor advances by the total
\* size, the payload returned is the one of the chunk at the old cursor, and
\* the free pool is as it was, whatever it holds.
C16_TailPreference ==
    [][ (/\ Stepped /\ NewCall.op = "malloc" /\ status' = "running"
         /\ pos + TotalSize(NewCall.a) <= BufferSize)
        => /\ pos' = pos + TotalSize(NewCall.a)
           /\ NewCall.r = BufferBase + pos + AlignedHeaderSize
           /\ free_pool' = free_pool ]_vars

\* A chunk was carved from the tail while the pool held a free chunk that fits.
C16_Witness ==
    /\ status = "running" /\ Len(history) > 2
    /\ Last.op = "malloc" /\ Last.r # 0
    /\ Last.r = BufferBase + pos - TotalSize(Last.a) + AlignedHeaderSize
    /\ \E k \in DOMAIN free_pool : k >= Last.a /\ free_pool[k] # <<>>

\* The pools that can serve a request of sz bytes.
Fitting(pool, sz) == {k \in DOMAIN pool : k >= sz /\ pool[k] # <<>>}

\* C17.  Best fit with LIFO pools: an allocate(sz) that returns and finds no
\* room in the tail takes the address pushed last onto the non-empty pool of
\* the least key >= sz, removes it from that pool and returns its payload
\* (the pool gaining at most the remainder of a split); with no non-empty
\* pool of key >= sz it returns null and leaves pool, arena and cursor alone.
C17_BestFitLifo ==
    [][ (/\ Stepped /\ NewCall.op = "malloc" /\ status' = "running"
         /\ TotalSize(NewCall.a) < SizeMod
         /\ pos + TotalSize(NewCall.a) > BufferSize)
        => IF Fitting(free_pool, NewCall.a) = {}
           THEN NewCall.r = 0 /\ UNCHANGED <<free_pool, memory, pos>>
           ELSE LET k == CHOOSE x \in Fitting(free_pool, NewCall.a) :
                             \A y \in Fitting(free_pool, NewCall.a) : x <= y
                    top == free_pool[k][Len(free_pool[k])]
                    rest == [free_pool EXCEPT ![k] = SubSeq(@, 1, Len(@) - 1)]
                IN  /\ NewCall.r = top + AlignedHeaderSize
                    /\ pos' = pos
                    /\ \/ free_pool' = rest
                       \/ \E e \in DOMAIN free_pool' :
                              /\ free_pool'[e] # <<>>
                              /\ free_pool' = PoolPush(rest, e, PoolTop(free_pool', e)) ]_vars

\* Two allocations of one size served from the pool in a row (the tail had
\* no room): the first emptied the pool of that key, the second passed over
\* the empty pool and took a chunk from the pool of a greater key.
C17_Witness ==
    /\ status = "running" /\ ~misuse /\ InArena(memory) /\ Len(history) > 3
    /\ Last.op = "malloc" /\ Last.r # 0
    /\ pos + TotalSize(Last.a) > BufferSize
    /\ LET prev == history[Len(history) - 1]
       IN  /\ prev.op = "malloc" /\ prev.a = Last.a /\ prev.r # 0
           /\ HdrSize(memory, extract_chunk_header(prev.r)) = Last.a
    /\ Last.a \in DOMAIN free_pool /\ free_pool[Last.a] = <<>>
    /\ HdrSize(memory, extract_chunk_header(Last.r)) > Last.a

\* C18.  Alignment: the aligned payload size allocate computes for sz is a
\* multiple of alignof(std::max_align_t) and at least sz, and every payload
\* pointer allocate returns is at a multiple of it from the arena base.
C18_Alignment ==
    [][ (Stepped /\ NewCall.op = "malloc" /\ NewCall.r # 0 /\ ~misuse)
        => /\ offset_to_next_aligned_size(NewCall.a) % Alignment = 0
           /\ offset_to_next_aligned_size(NewCall.a) >= NewCall.a
           /\ (NewCall.r - BufferBase) % Alignment = 0 ]_vars

\* C19.  Termination: no call runs for ever, and the walk over next from the
\* header of any pointer the program holds reaches a null next (no cycle).
\* A call is one step here; a call that does not end is the step to "hang".
C19_Terminates ==
    (~misuse /\ InArena(memory))
    => /\ status # "hang"
       /\ \A p \in DOMAIN outstanding :
              ChainReaches(memory, extract_chunk_header(p), 0, BufferSize)

\* C20.  Header accesses stay inside the arena: no call of a program that
\* releases only pointers it holds faults, and none leaves a byte stored
\* outside [base, base + size).
C20_HeadersInArena ==
    ~misuse => (status # "segv" /\ InArena(memory))

====
